---- MODULE Spec2Model ----
(***************************************************************************)
(* Model of image-organizer: the compare pipeline                          *)
(* (compare_image_content.py), the group pipelines                         *)
(* (groupby_captured_timestamp.py and the standalone                       *)
(* groupby_capture_timestamp.py), and the helpers of image_organizer/.     *)
(*                                                                         *)
(* A path is a sequence of components; a component is a record             *)
(* [stem, suffix] as pathlib splits a name, the stem being a sequence of   *)
(* text pieces whose concatenation is the stem.  A string of characters    *)
(* that the code parses or formats (an EXIF tag value, a strftime label)   *)
(* is a sequence of one-character strings.  An optional value (None or a   *)
(* value) is the empty sequence or a one-element sequence.                 *)
(*                                                                         *)
(* The commands import map_mt_with_tqdm and read_captured_timestamp, names *)
(* the helper modules do not define: the mapper is modelled from           *)
(* map_parallel_with_tqdm of func.py (the same pqdm call as map_parallel   *)
(* of the standalone script), and read_captured_timestamp as               *)
(* get_img_captured_timestamp applied to read_exif_tags.                   *)
(***************************************************************************)
EXTENDS Integers, Sequences, FiniteSets, TLC

VARIABLES
    cmd,            \* what runs: "compare", "groupby", "groupby_legacy"; or an extractor alone
    hasher,         \* --hasher
    groupby,        \* --groupby
    threads,        \* --threads
    fs,             \* the source trees: path -> [readable, content, exif]
    dirs,           \* directories existing at or below the destination root
    dirs0,          \* the value of dirs when the command started
    outFiles,       \* files written below the destination: set of <<dst, src>>
    reads,          \* source files a key extractor has opened
    pc,             \* the orchestrator's position
    src1_img_paths, src2_img_paths,     \* enumerated images (groupby: src1 is SRC)
    src1_img_hashes, src2_img_hashes,   \* results of the hashing stages
    src_img_captured_timestamps,        \* result of the timestamp stage
    exif_attrs_per_img,                 \* result of the standalone script's reading stage
    buckets,        \* dst_dir_name_to_src_img_paths
    mapping,        \* the current src -> dst mapping, a set of <<src, dst>>
    m_items,        \* the running mapper call: its items, in submission order
    m_state,        \* per item: "pending", "running", "done", "raised"
    m_res,          \* per item: the value its future holds
    m_order,        \* item indices in the order their invocations completed
    m_cur,          \* per mkdirp item: the path its next os.mkdir call is for
    m_prev,         \* m_state as it was when the previous mapper call returned
    m_prev_order,   \* m_order as it was when the previous mapper call returned
    raisedIn,       \* the stage in which an invocation first raised, or "none"
    ex_tags,        \* the EXIF mapping handed to the timestamp extractor
    ex_result       \* what the extractor returned: <<>> before the call, else <<outcome>>

orchVars == <<cmd, hasher, groupby, threads, fs, dirs0>>
listVars == <<src1_img_paths, src2_img_paths, src1_img_hashes, src2_img_hashes,
              src_img_captured_timestamps, exif_attrs_per_img, buckets, mapping>>
mapVars  == <<m_items, m_state, m_res, m_order, m_cur, m_prev, m_prev_order>>
fsVars   == <<dirs, outFiles, reads>>
exVars   == <<ex_tags, ex_result>>
vars == <<cmd, hasher, groupby, threads, fs, dirs, dirs0, outFiles, reads, pc,
          src1_img_paths, src2_img_paths, src1_img_hashes, src2_img_hashes,
          src_img_captured_timestamps, exif_attrs_per_img,
          buckets, mapping, m_items, m_state, m_res, m_order, m_cur, m_prev, m_prev_order,
          raisedIn, ex_tags, ex_result>>

\* ---------------------------------------------------------------- bounds
MaxThreads == 2
MaxContent == 2

\* ------------------------------------------------------- generic helpers
None == <<>>
Some(x) == <<x>>

Last(s) == s[Len(s)]
SeqToSet(s) == {s[i] : i \in DOMAIN s}
Perms(S) == {q \in [1..Cardinality(S) -> S] : \A e \in S : \E i \in DOMAIN q : q[i] = e}

\* ------------------------------------------------------------------ paths
N(stem, suffix) == [stem |-> <<stem>>, suffix |-> suffix]
D(name) == N(name, "")
Parent(p) == SubSeq(p, 1, Len(p) - 1)
Name(p) == Last(p)
\* Path.relative_to(root) for a path below the one-component root
RelativeTo(p, root) == SubSeq(p, Len(root) + 1, Len(p))
IsPrefix(a, b) == Len(a) <= Len(b) /\ SubSeq(b, 1, Len(a)) = a

SRC1 == <<D("src1")>>
SRC2 == <<D("src2")>>
SRC  == <<D("src")>>
DST  == <<D("dst")>>

\* ------------------------------------------------ characters and numbers
DigitVal == [c \in {"0","1","2","3","4","5","6","7","8","9"} |->
               CASE c = "0" -> 0 [] c = "1" -> 1 [] c = "2" -> 2 [] c = "3" -> 3
                 [] c = "4" -> 4 [] c = "5" -> 5 [] c = "6" -> 6 [] c = "7" -> 7
                 [] c = "8" -> 8 [] c = "9" -> 9]
DigitChar == <<"0","1","2","3","4","5","6","7","8","9">>
IsDigit(c) == c \in DOMAIN DigitVal
IsSpace(c) == c \in {" ", "\t", "\n"}
At(s, p) == IF p \in 1..Len(s) THEN s[p] ELSE ""

RECURSIVE RunLen(_, _)
RunLen(s, p) == IF IsDigit(At(s, p)) THEN 1 + RunLen(s, p + 1) ELSE 0
RECURSIVE WsLen(_, _)
WsLen(s, p) == IF IsSpace(At(s, p)) THEN 1 + WsLen(s, p + 1) ELSE 0
RECURSIVE NumVal(_, _, _)
NumVal(s, p, n) == IF n = 0 THEN 0 ELSE NumVal(s, p, n - 1) * 10 + DigitVal[s[p + n - 1]]
\* the decimal digits of v, zero-padded to width w (v < 10^w)
RECURSIVE Pad(_, _)
Pad(v, w) == IF w = 0 THEN <<>> ELSE Append(Pad(v \div 10, w - 1), DigitChar[(v % 10) + 1])

IsLeap(y) == (y % 4 = 0 /\ y % 100 # 0) \/ y % 400 = 0
DaysInMonth(y, m) ==
    IF m = 2 THEN (IF IsLeap(y) THEN 29 ELSE 28)
    ELSE IF m \in {4, 6, 9, 11} THEN 30 ELSE 31

\* ------------------------------------------------------------ exif.py
(* datetime.strptime(s, '%Y:%m:%d %H:%M:%S'): Some(datetime) or None for a *)
(* ValueError.  The format compiles to                                     *)
(*   \d\d\d\d : (1[0-2]|0[1-9]|[1-9]) : (3[01]|[12]\d|0[1-9]|[1-9]| [1-9]) *)
(*   \s+ (2[0-3]|[0-1]\d|\d) : ([0-5]\d|\d) : (6[0-1]|[0-5]\d|\d)          *)
(* matched from the start, all of the text consumed; the datetime          *)
(* constructor then rejects year 0, a day past the month's end and a       *)
(* second above 59.  Each field is therefore one whole run of digits.      *)
Strptime(s) ==
    LET nY == RunLen(s, 1)
        pm == nY + 2
        nm == RunLen(s, pm)
        p0 == pm + nm + 1
        pd == IF At(s, p0) = " " THEN p0 + 1 ELSE p0
        nd == RunLen(s, pd)
        nw == WsLen(s, pd + nd)
        pH == pd + nd + nw
        nH == RunLen(s, pH)
        pM == pH + nH + 1
        nM == RunLen(s, pM)
        pS == pM + nM + 1
        nS == RunLen(s, pS)
        shape == /\ nY = 4 /\ At(s, 5) = ":"
                 /\ nm \in 1..2 /\ At(s, pm + nm) = ":"
                 /\ nd \in 1..2 /\ (pd # p0 => nd = 1)
                 /\ nw >= 1
                 /\ nH \in 1..2 /\ At(s, pH + nH) = ":"
                 /\ nM \in 1..2 /\ At(s, pM + nM) = ":"
                 /\ nS \in 1..2 /\ pS + nS = Len(s) + 1
    IN  IF ~shape THEN None
        ELSE LET Y  == NumVal(s, 1, 4)
                 m  == NumVal(s, pm, nm)
                 d  == NumVal(s, pd, nd)
                 H  == NumVal(s, pH, nH)
                 M  == NumVal(s, pM, nM)
                 S  == NumVal(s, pS, nS)
             IN  IF /\ Y >= 1 /\ m \in 1..12 /\ d \in 1..DaysInMonth(Y, m)
                    /\ H \in 0..23 /\ M \in 0..59 /\ S \in 0..59
                 THEN Some([Y |-> Y, m |-> m, d |-> d, H |-> H, M |-> M, S |-> S])
                 ELSE None

\* An EXIF tag value: absent from the mapping, a value that is not a str, or a str.
Absent == [t |-> "absent", s |-> <<>>]
NotStr == [t |-> "notstr", s |-> <<>>]
Str(s) == [t |-> "str", s |-> s]

TagOrder == <<"DateTimeOriginal", "DateTimeDigitized", "DateTime">>
TagKeys == SeqToSet(TagOrder)
NoTags == [k \in TagKeys |-> Absent]

\* _try_parse_exif_datetime
TryParseExifDatetime(exif_tags, tag_key) ==
    LET tag_value == exif_tags[tag_key]
    IN  IF tag_value.t = "absent" THEN None
        ELSE IF tag_value.t # "str" THEN None
        ELSE Strptime(tag_value.s)

\* the for loop of get_img_captured_timestamp over the tags from index i on
RECURSIVE TimestampFrom(_, _)
TimestampFrom(exif_tags, i) ==
    IF i > Len(TagOrder) THEN None
    ELSE LET captured_timestamp == TryParseExifDatetime(exif_tags, TagOrder[i])
         IN  IF captured_timestamp # None THEN captured_timestamp
             ELSE TimestampFrom(exif_tags, i + 1)

\* get_img_captured_timestamp: [raised, value]
GetImgCapturedTimestamp(exif_tags) ==
    [raised |-> FALSE, value |-> TimestampFrom(exif_tags, 1)]

\* groupby_capture_timestamp.py: three "if tag in exif_attrs: try: return
\* strptime(...) except ValueError: pass" blocks.  strptime raises TypeError,
\* which nothing catches, for a value that is not a str.
RECURSIVE LegacyFrom(_, _)
LegacyFrom(exif_attrs, i) ==
    IF i > Len(TagOrder) THEN [raised |-> FALSE, value |-> None]
    ELSE LET v == exif_attrs[TagOrder[i]]
         IN  IF v.t = "absent" THEN LegacyFrom(exif_attrs, i + 1)
             ELSE IF v.t # "str" THEN [raised |-> TRUE, value |-> None]
             ELSE IF Strptime(v.s) # None THEN [raised |-> FALSE, value |-> Strptime(v.s)]
             ELSE LegacyFrom(exif_attrs, i + 1)

\* get_img_capture_timestamp (the standalone script)
GetImgCaptureTimestamp(exif_attrs) == LegacyFrom(exif_attrs, 1)

\* ---- tag values the extractor is run on
Ch(a, b, c, d, e) == <<a, b, c, d, e>>
TS_20230704 == Ch("2","0","2","3",":") \o Ch("0","7",":","0","4") \o Ch(" ","1","0",":","0") \o <<"0",":","0","0">>
TS_20240115 == Ch("2","0","2","4",":") \o Ch("0","1",":","1","5") \o Ch(" ","0","8",":","3") \o <<"0",":","5","9">>
TS_20230720 == Ch("2","0","2","3",":") \o Ch("7",":","2","0"," ") \o <<"9",":","5",":","7">>
TS_dashes   == Ch("2","0","2","3","-") \o Ch("0","7","-","0","4") \o Ch(" ","1","0",":","0") \o <<"0",":","0","0">>
TS_feb30    == Ch("2","0","2","3",":") \o Ch("0","2",":","3","0") \o Ch(" ","1","0",":","0") \o <<"0",":","0","0">>
TS_trailing == TS_20230704 \o <<"Z">>

ValidStrings == {TS_20230704, TS_20240115, TS_20230720}
MalformedStrings == {TS_dashes, TS_feb30, TS_trailing, <<>>}
TagValues == {Absent, NotStr} \cup {Str(s) : s \in ValidStrings \cup MalformedStrings}


\* ------------------------------------------------------- filesystem.py
\* mimetypes.guess_type: the media type of a suffix, None when it is unknown
TypesMap == [x \in {".jpg", ".png", ".txt"} |->
               CASE x = ".jpg" -> [major |-> "image", minor |-> "jpeg"]
                 [] x = ".png" -> [major |-> "image", minor |-> "png"]
                 [] x = ".txt" -> [major |-> "text", minor |-> "plain"]]
GuessType(path) ==
    IF Name(path).suffix \in DOMAIN TypesMap THEN Some(TypesMap[Name(path).suffix]) ELSE None

\* is_image
IsImage(path) ==
    LET filetype == GuessType(path)
    IN  filetype # None /\ filetype[1].major = "image"

\* a command that does not look at the destination
DstExistsUnchecked(ds) == FALSE
\* Path(dst).exists()
DstExists(ds) == DST \in ds

\* Path(root).rglob('*'): every entry below root, directories included
RGlob(tree, root) ==
    {e \in UNION {{SubSeq(p, 1, n) : n \in 1..Len(p)} : p \in DOMAIN tree} :
        Len(e) > Len(root) /\ IsPrefix(root, e)}
\* [path for path in Path(src).rglob('*') if is_image(path)], as a set
ImagesBelow(tree, root) == {p \in RGlob(tree, root) : IsImage(p)}

\* ---------------------------------------------------------------- hash.py
\* hashlib's hexdigest of a content, taken collision-free; never the empty string
HexDigest(hash_method, content) == <<hash_method, content>>
EmptyHash == <<>>

\* compute_hash: the empty string when read_bytes raises
ComputeHash(file, hash_method) ==
    IF ~file.readable THEN EmptyHash ELSE HexDigest(hash_method, file.content)

\* read_exif_tags / read_exif_attrs: {} when Image.open raises
ReadExifTags(file) ==
    IF file.readable /\ file.exif # None THEN file.exif[1] ELSE NoTags

\* read_captured_timestamp, which groupby_captured_timestamp.py imports from exif.py
ReadCapturedTimestamp(file) == GetImgCapturedTimestamp(ReadExifTags(file)).value

\* -------------------------------------------- groupby_captured_timestamp.py
UNKNOWN == <<"UNKNOWN">>

\* _get_dst_dir_name: strftime of %Y, %Y%m, %Y%m%d
GetDstDirName(timestamp, gb) ==
    IF gb = "year" THEN Pad(timestamp.Y, 4)
    ELSE IF gb = "month" THEN Pad(timestamp.Y, 4) \o Pad(timestamp.m, 2)
    ELSE Pad(timestamp.Y, 4) \o Pad(timestamp.m, 2) \o Pad(timestamp.d, 2)

\* the body of the grouping loop: the directory name of one image
DstDirNameOf(captured_timestamp, gb) ==
    IF captured_timestamp = None THEN UNKNOWN
    ELSE GetDstDirName(captured_timestamp[1], gb)

RECURSIVE PathsNamed(_, _, _, _)
PathsNamed(paths, names, name, n) ==
    IF n = 0 THEN <<>>
    ELSE IF names[n] = name THEN Append(PathsNamed(paths, names, name, n - 1), paths[n])
    ELSE PathsNamed(paths, names, name, n - 1)

\* a grouping loop that skips the images without a timestamp
GroupByDirNameSkippingUnknown(paths, names) ==
    [name \in SeqToSet(names) \ {UNKNOWN} |-> PathsNamed(paths, names, name, Len(paths))]

\* the grouping loop: dst_dir_name_to_src_img_paths[dst_dir_name].append(src_img_path)
GroupByDirName(paths, names) ==
    [name \in SeqToSet(names) |-> PathsNamed(paths, names, name, Len(paths))]

\* src_img_path_to_dst_img_path
GroupMapping(bs) ==
    UNION {{<<bs[name][i], DST \o <<[stem |-> name, suffix |-> ""]>> \o <<Name(bs[name][i])>>>> :
                i \in DOMAIN bs[name]} : name \in DOMAIN bs}

\* {path.parent for path in mapping.values()}
ParentsOf(m) == {Parent(pair[2]) : pair \in m}

\* --------------------------------------------------- compare_image_content.py
\* {img_hash: img_path for img_path, img_hash in zip(paths, hashes)}: the last path wins
HashToPath(paths, hashes) ==
    [h \in SeqToSet(hashes) |->
        paths[CHOOSE i \in DOMAIN hashes :
                 hashes[i] = h /\ \A j \in DOMAIN hashes : hashes[j] = h => j <= i]]

hashes_in_src1 == SeqToSet(src1_img_hashes)
hashes_in_src2 == SeqToSet(src2_img_hashes)
hashes_in_both == hashes_in_src1 \cap hashes_in_src2
\* a difference that forgets to remove the other source's hashes
hashes_in_src1_unfiltered == hashes_in_src1
hashes_in_src1_only == hashes_in_src1 \ hashes_in_src2
hashes_in_src2_only == hashes_in_src2 \ hashes_in_src1

src1_img_hash_to_path == HashToPath(src1_img_paths, src1_img_hashes)
src2_img_hash_to_path == HashToPath(src2_img_paths, src2_img_hashes)

\* {hash_to_path[h]: Path(dst) / bucket / hash_to_path[h].relative_to(src) for h in hashes}
BucketMapping(hash_to_path, hashes, bucket, src) ==
    {<<hash_to_path[h], DST \o <<D(bucket)>> \o RelativeTo(hash_to_path[h], src)>> : h \in hashes}

in_both_src_path_to_dst_path ==
    BucketMapping(src1_img_hash_to_path, hashes_in_both, "both", SRC1)
in_src1_only_src_path_to_dst_path ==
    BucketMapping(src1_img_hash_to_path, hashes_in_src1_only, "src1_only", SRC1)
in_src2_only_src_path_to_dst_path ==
    BucketMapping(src2_img_hash_to_path, hashes_in_src2_only, "src2_only", SRC2)

\* ------------------------------------------------------------------ func.py
(* map_parallel_with_tqdm is pqdm.threads.pqdm(arr, fn, n_jobs=n_jobs,     *)
(* exception_behaviour='immediate').  With n_jobs = 1 pqdm runs            *)
(* [fn(a) for a in arr] in the calling thread, so the first exception      *)
(* leaves the call at once.  Otherwise it submits one future per item, in  *)
(* order, to a ThreadPoolExecutor of n_jobs workers, waits until every     *)
(* future has completed, and then walks the futures in submission order,   *)
(* appending each result and re-raising the first exception it meets.      *)
HashStages  == {"hash_src1", "hash_src2"}
MkdirStages == {"mkdir_both", "mkdir_src1_only", "mkdir_src2_only", "mkdir_groups"}
CopyStages  == {"copy_both", "copy_src1_only", "copy_src2_only", "copy_groups"}
MapStages   == HashStages \cup MkdirStages \cup CopyStages \cup {"read_timestamps", "read_exif"}

\* the with-block of the executor has been left: every future has completed
PoolDrained(st) == \A i \in DOMAIN st : st[i] \in {"done", "raised"}

\* exception_behaviour='ignore'
FailedIgnored(st) == FALSE
\* exception_behaviour='immediate': some future holds an exception
Failed(st) == \E i \in DOMAIN st : st[i] = "raised"

\* results gathered in the order the futures completed
CollectAsCompleted(res, order) == [k \in DOMAIN res |-> res[order[k]][1]]
\* results.append(future.result()) over the futures in submission order
Collect(res, order) == [i \in DOMAIN res |-> res[i][1]]

\* the mapper call returns its result list
MapperReturns == PoolDrained(m_state) /\ ~Failed(m_state)
\* the mapper call raises
MapperRaises == Failed(m_state) /\ (threads = 1 \/ PoolDrained(m_state))

\* a copy phase issued without waiting for the directory phase
MkdirPhaseNotAwaited == ~Failed(m_state)
\* the map over mkdirp has returned; only then is the map over _copyfile called
MkdirPhaseComplete == MapperReturns

\* a new mapper call over items, entered at the given stage
BeginMap(items, stage) ==
    /\ m_items' = items
    /\ m_state' = [i \in DOMAIN items |-> "pending"]
    /\ m_res' = [i \in DOMAIN items |-> None]
    /\ m_cur' = [i \in DOMAIN items |-> <<>>]
    /\ m_order' = <<>>
    /\ m_prev' = m_state
    /\ m_prev_order' = m_order
    /\ pc' = stage

Running == {i \in DOMAIN m_state : m_state[i] = "running"}

\* a worker takes the next queued item
TaskStart(i) ==
    /\ pc \in MapStages
    /\ m_state[i] = "pending"
    /\ \A j \in 1..(i - 1) : m_state[j] # "pending"
    /\ Cardinality(Running) < threads
    /\ threads = 1 => ~Failed(m_state)
    /\ m_state' = [m_state EXCEPT ![i] = "running"]
    /\ m_cur' = [m_cur EXCEPT ![i] = IF pc \in MkdirStages THEN m_items[i] ELSE <<>>]
    /\ UNCHANGED <<orchVars, fsVars, listVars, pc, m_items, m_res, m_order, m_prev,
                   m_prev_order, raisedIn, exVars>>

Completes(i, v) ==
    /\ m_state' = [m_state EXCEPT ![i] = "done"]
    /\ m_res' = [m_res EXCEPT ![i] = Some(v)]
    /\ m_order' = Append(m_order, i)
    /\ raisedIn' = raisedIn

Raises(i) ==
    /\ m_state' = [m_state EXCEPT ![i] = "raised"]
    /\ m_res' = m_res
    /\ m_order' = Append(m_order, i)
    /\ raisedIn' = IF raisedIn = "none" THEN pc ELSE raisedIn

\* lambda path: compute_hash(path, hash_method=hasher)
HashTask(i) ==
    /\ pc \in HashStages
    /\ m_state[i] = "running"
    /\ reads' = reads \cup {m_items[i]}
    /\ Completes(i, ComputeHash(fs[m_items[i]], hasher))
    /\ UNCHANGED <<orchVars, dirs, outFiles, listVars, pc, m_items, m_cur, m_prev,
                   m_prev_order, exVars>>

\* read_captured_timestamp
TimestampTask(i) ==
    /\ pc = "read_timestamps"
    /\ m_state[i] = "running"
    /\ reads' = reads \cup {m_items[i]}
    /\ Completes(i, ReadCapturedTimestamp(fs[m_items[i]]))
    /\ UNCHANGED <<orchVars, dirs, outFiles, listVars, pc, m_items, m_cur, m_prev,
                   m_prev_order, exVars>>

\* read_exif_attrs (the standalone script)
ExifTask(i) ==
    /\ pc = "read_exif"
    /\ m_state[i] = "running"
    /\ reads' = reads \cup {m_items[i]}
    /\ Completes(i, ReadExifTags(fs[m_items[i]]))
    /\ UNCHANGED <<orchVars, dirs, outFiles, listVars, pc, m_items, m_cur, m_prev,
                   m_prev_order, exVars>>

(* mkdirp: Path.mkdir(parents=True), one os.mkdir call per step.           *)
(*   try: os.mkdir(self)                                                   *)
(*   except FileNotFoundError: self.parent.mkdir(parents=True,             *)
(*       exist_ok=True); self.mkdir(parents=False, exist_ok=exist_ok)      *)
(*   except OSError: if not exist_ok or not self.is_dir(): raise           *)
(* m_cur[i] is the path of the next os.mkdir; exist_ok is False for the    *)
(* item itself and True for its ancestors.  The parent of the destination  *)
(* root exists.                                                            *)
MkdirSyscall(i) ==
    /\ pc \in MkdirStages
    /\ m_state[i] = "running"
    /\ LET cur == m_cur[i]
           target == m_items[i]
           down == SubSeq(target, 1, Len(cur) + 1)
       IN  IF cur \in dirs
           THEN IF cur = target
                THEN /\ Raises(i)
                     /\ UNCHANGED <<dirs, m_cur>>
                ELSE /\ m_cur' = [m_cur EXCEPT ![i] = down]
                     /\ UNCHANGED <<dirs, m_state, m_res, m_order, raisedIn>>
           ELSE IF Len(cur) > 1 /\ Parent(cur) \notin dirs
                THEN /\ m_cur' = [m_cur EXCEPT ![i] = Parent(cur)]
                     /\ UNCHANGED <<dirs, m_state, m_res, m_order, raisedIn>>
                ELSE /\ dirs' = dirs \cup {cur}
                     /\ IF cur = target
                        THEN Completes(i, None) /\ m_cur' = m_cur
                        ELSE /\ m_cur' = [m_cur EXCEPT ![i] = down]
                             /\ UNCHANGED <<m_state, m_res, m_order, raisedIn>>
    /\ UNCHANGED <<orchVars, outFiles, reads, listVars, pc, m_items, m_prev,
                   m_prev_order, exVars>>

\* _copyfile: shutil.copyfile(src, dst) raises when src cannot be opened for
\* reading or dst's directory is missing; otherwise dst holds src's bytes
CopyTask(i) ==
    /\ pc \in CopyStages
    /\ m_state[i] = "running"
    /\ LET src == m_items[i][1]
           dst == m_items[i][2]
       IN  IF ~fs[src].readable \/ Parent(dst) \notin dirs
           THEN Raises(i) /\ outFiles' = outFiles
           ELSE /\ outFiles' = {o \in outFiles : o[1] # dst} \cup {<<dst, src>>}
                /\ Completes(i, dst)
    /\ UNCHANGED <<orchVars, dirs, reads, listVars, pc, m_items, m_cur, m_prev,
                   m_prev_order, exVars>>

\* ------------------------------------------------ the orchestrators' steps
\* if Path(dst).exists(): raise ValueError (both commands)
RejectExistingDst ==
    /\ pc = "start"
    /\ cmd \in {"compare", "groupby", "groupby_legacy"}
    /\ DstExists(dirs)
    /\ pc' = "error"
    /\ UNCHANGED <<orchVars, fsVars, listVars, mapVars, raisedIn, exVars>>

\* compare_image_content, lines 54-65: enumerate src1 and hash it
StartCompare ==
    /\ pc = "start"
    /\ cmd = "compare"
    /\ ~DstExists(dirs)
    /\ \E paths \in Perms(ImagesBelow(fs, SRC1)) :
          /\ src1_img_paths' = paths
          /\ BeginMap(paths, "hash_src1")
    /\ UNCHANGED <<orchVars, fsVars, src2_img_paths, src1_img_hashes, src2_img_hashes,
                   src_img_captured_timestamps, exif_attrs_per_img, buckets, mapping,
                   raisedIn, exVars>>

\* compare_image_content, lines 66-77: enumerate src2 and hash it
HashSrc1Done ==
    /\ pc = "hash_src1"
    /\ MapperReturns
    /\ src1_img_hashes' = Collect(m_res, m_order)
    /\ \E paths \in Perms(ImagesBelow(fs, SRC2)) :
          /\ src2_img_paths' = paths
          /\ BeginMap(paths, "hash_src2")
    /\ UNCHANGED <<orchVars, fsVars, src1_img_paths, src2_img_hashes,
                   src_img_captured_timestamps, exif_attrs_per_img, buckets, mapping,
                   raisedIn, exVars>>

\* compare_image_content, lines 78-99: partition, map the first bucket, make its directories
HashSrc2Done ==
    /\ pc = "hash_src2"
    /\ MapperReturns
    /\ UNCHANGED <<orchVars, fsVars, src1_img_paths, src2_img_paths, src1_img_hashes,
                   src_img_captured_timestamps, exif_attrs_per_img, buckets,
                   raisedIn, exVars>>
    /\ src2_img_hashes' = Collect(m_res, m_order)
    /\ mapping' = in_both_src_path_to_dst_path'
    /\ \E items \in Perms(ParentsOf(mapping')) : BeginMap(items, "mkdir_both")

CopyStageOf(stage) ==
    CASE stage = "mkdir_both" -> "copy_both"
      [] stage = "mkdir_src1_only" -> "copy_src1_only"
      [] stage = "mkdir_src2_only" -> "copy_src2_only"
      [] stage = "mkdir_groups" -> "copy_groups"

\* the map over mkdirp is followed by the map over _copyfile (both commands)
MkdirDone ==
    /\ pc \in MkdirStages
    /\ MkdirPhaseComplete
    /\ \E items \in Perms(mapping) : BeginMap(items, CopyStageOf(pc))
    /\ UNCHANGED <<orchVars, fsVars, listVars, raisedIn, exVars>>

\* compare_image_content, lines 108-118 and 127-137: the next bucket
CopyDoneNextBucket ==
    /\ pc \in {"copy_both", "copy_src1_only"}
    /\ MapperReturns
    /\ mapping' = IF pc = "copy_both" THEN in_src1_only_src_path_to_dst_path
                  ELSE in_src2_only_src_path_to_dst_path
    /\ \E items \in Perms(ParentsOf(mapping')) :
          BeginMap(items, IF pc = "copy_both" THEN "mkdir_src1_only" ELSE "mkdir_src2_only")
    /\ UNCHANGED <<orchVars, fsVars, src1_img_paths, src2_img_paths, src1_img_hashes,
                   src2_img_hashes, src_img_captured_timestamps, exif_attrs_per_img,
                   buckets, raisedIn, exVars>>

\* the last map over _copyfile returns and the command ends
CopyDoneLast ==
    /\ pc \in {"copy_src2_only", "copy_groups"}
    /\ MapperReturns
    /\ pc' = "done"
    /\ m_prev' = m_state
    /\ m_prev_order' = m_order
    /\ UNCHANGED <<orchVars, fsVars, listVars, m_items, m_state, m_res, m_order, m_cur,
                   raisedIn, exVars>>

\* an exception leaves the mapper call and, uncaught, the command
MapperRaise ==
    /\ pc \in MapStages
    /\ MapperRaises
    /\ pc' = "error"
    /\ UNCHANGED <<orchVars, fsVars, listVars, mapVars, raisedIn, exVars>>

\* groupby_captured_timestamp, lines 60-71: enumerate src and read the timestamps
StartGroupby ==
    /\ pc = "start"
    /\ cmd = "groupby"
    /\ ~DstExists(dirs)
    /\ \E paths \in Perms(ImagesBelow(fs, SRC)) :
          /\ src1_img_paths' = paths
          /\ BeginMap(paths, "read_timestamps")
    /\ UNCHANGED <<orchVars, fsVars, src2_img_paths, src1_img_hashes, src2_img_hashes,
                   src_img_captured_timestamps, exif_attrs_per_img, buckets, mapping,
                   raisedIn, exVars>>

\* groupby_capture_timestamp (standalone), lines 114-128
StartGroupbyLegacy ==
    /\ pc = "start"
    /\ cmd = "groupby_legacy"
    /\ ~DstExists(dirs)
    /\ \E paths \in Perms(ImagesBelow(fs, SRC)) :
          /\ src1_img_paths' = paths
          /\ BeginMap(paths, "read_exif")
    /\ UNCHANGED <<orchVars, fsVars, src2_img_paths, src1_img_hashes, src2_img_hashes,
                   src_img_captured_timestamps, exif_attrs_per_img, buckets, mapping,
                   raisedIn, exVars>>

\* the partition, the mapping and the first materializer call of a group pipeline
GroupAndMap(timestamps) ==
    LET names == [i \in DOMAIN timestamps |-> DstDirNameOf(timestamps[i], groupby)]
    IN  /\ buckets' = GroupByDirName(src1_img_paths, names)
        /\ mapping' = GroupMapping(buckets')
        /\ \E items \in Perms(ParentsOf(mapping')) : BeginMap(items, "mkdir_groups")

\* groupby_captured_timestamp, lines 73-97
TimestampsDone ==
    /\ pc = "read_timestamps"
    /\ MapperReturns
    /\ src_img_captured_timestamps' = Collect(m_res, m_order)
    /\ GroupAndMap(src_img_captured_timestamps')
    /\ UNCHANGED <<orchVars, fsVars, src1_img_paths, src2_img_paths, src1_img_hashes,
                   src2_img_hashes, exif_attrs_per_img, raisedIn, exVars>>

\* groupby_capture_timestamp (standalone), lines 130-154: get_img_capture_timestamp
\* runs in the grouping loop, where its TypeError ends the command
ExifAttrsDone ==
    /\ pc = "read_exif"
    /\ MapperReturns
    /\ exif_attrs_per_img' = Collect(m_res, m_order)
    /\ LET got == [i \in DOMAIN m_res |-> GetImgCaptureTimestamp(exif_attrs_per_img'[i])]
       IN  IF \E i \in DOMAIN got : got[i].raised
           THEN /\ pc' = "error"
                /\ UNCHANGED <<src_img_captured_timestamps, buckets, mapping, mapVars>>
           ELSE /\ src_img_captured_timestamps' = [i \in DOMAIN got |-> got[i].value]
                /\ GroupAndMap(src_img_captured_timestamps')
    /\ UNCHANGED <<orchVars, fsVars, src1_img_paths, src2_img_paths, src1_img_hashes,
                   src2_img_hashes, raisedIn, exVars>>

\* ------------------------------------------------------- the source trees
Readable(c) == [readable |-> TRUE, content |-> c, exif |-> None]
Unreadable  == [readable |-> FALSE, content |-> 1, exif |-> None]
Image(tags) == [readable |-> TRUE, content |-> 1, exif |-> Some(tags)]
Tags(o, g, t) == [k \in TagKeys |-> CASE k = "DateTimeOriginal" -> o
                                      [] k = "DateTimeDigitized" -> g
                                      [] k = "DateTime" -> t]

CompareCands == {SRC1 \o <<N("a", ".jpg")>>, SRC1 \o <<D("sub"), N("b", ".jpg")>>,
                 SRC2 \o <<N("a", ".jpg")>>, SRC2 \o <<D("sub"), N("c", ".png")>>}
CompareOthers == {SRC1 \o <<N("notes", ".txt")>>}
CompareKinds == {Readable(c) : c \in 1..MaxContent} \cup {Unreadable}
CompareTrees ==
    UNION {{f \in [S \cup CompareOthers -> CompareKinds] :
               \A p \in CompareOthers : f[p] = Readable(1)} : S \in SUBSET CompareCands}

GroupCands == {SRC \o <<D("a"), N("x", ".jpg")>>, SRC \o <<D("b"), N("x", ".jpg")>>}
GroupOthers == {SRC \o <<N("notes", ".txt")>>}
GroupKinds == {Image(Tags(Str(TS_20230704), Absent, Absent)),
               Image(Tags(Str(TS_dashes), Str(TS_20240115), Absent)),
               Image(Tags(NotStr, Absent, Str(TS_20230720))),
               Image(NoTags),
               Readable(1),
               Unreadable}
GroupTrees ==
    UNION {{f \in [S \cup GroupOthers -> GroupKinds] :
               \A p \in GroupOthers : f[p] = Readable(1)} : S \in SUBSET GroupCands}

\* ------------------------------------------------------------------- Init
InitCommon ==
    /\ dirs0 = dirs
    /\ outFiles = {}
    /\ reads = {}
    /\ pc = "start"
    /\ src1_img_paths = <<>> /\ src2_img_paths = <<>>
    /\ src1_img_hashes = <<>> /\ src2_img_hashes = <<>>
    /\ src_img_captured_timestamps = <<>> /\ exif_attrs_per_img = <<>>
    /\ buckets = <<>> /\ mapping = {}
    /\ m_items = <<>> /\ m_state = <<>> /\ m_res = <<>> /\ m_order = <<>> /\ m_cur = <<>>
    /\ m_prev = <<>> /\ m_prev_order = <<>>
    /\ raisedIn = "none"
    /\ ex_result = None

Init ==
    /\ threads \in 1..MaxThreads
    /\ dirs \in {{}, {DST}}
    /\ ex_tags = NoTags
    /\ \/ /\ cmd = "compare"
          /\ hasher \in {"sha256", "sha512"}
          /\ groupby = "month"
          /\ fs \in CompareTrees
       \/ /\ cmd \in {"groupby", "groupby_legacy"}
          /\ hasher = "sha256"
          /\ groupby \in {"year", "month", "day"}
          /\ fs \in GroupTrees
    /\ InitCommon

Next ==
    \/ RejectExistingDst
    \/ StartCompare
    \/ HashSrc1Done
    \/ HashSrc2Done
    \/ MkdirDone
    \/ CopyDoneNextBucket
    \/ CopyDoneLast
    \/ MapperRaise
    \/ StartGroupby
    \/ StartGroupbyLegacy
    \/ TimestampsDone
    \/ ExifAttrsDone
    \/ \E i \in DOMAIN m_items :
          \/ TaskStart(i)
          \/ HashTask(i)
          \/ TimestampTask(i)
          \/ ExifTask(i)
          \/ MkdirSyscall(i)
          \/ CopyTask(i)

Spec == Init /\ [][Next]_vars

\* ------------------------------------- the timestamp extractors on their own
InitExif ==
    /\ cmd \in {"exif", "exif_legacy"}
    /\ hasher = "sha256"
    /\ groupby = "month"
    /\ fs = <<>>
    /\ threads = 1
    /\ dirs = {}
    /\ ex_tags \in [TagKeys -> TagValues]
    /\ InitCommon

\* a call of get_img_captured_timestamp (exif.py)
CallGetImgCapturedTimestamp ==
    /\ cmd = "exif"
    /\ ex_result = None
    /\ ex_result' = Some(GetImgCapturedTimestamp(ex_tags))
    /\ UNCHANGED <<orchVars, fsVars, listVars, mapVars, pc, raisedIn, ex_tags>>

\* a call of get_img_capture_timestamp (the standalone script)
CallGetImgCaptureTimestamp ==
    /\ cmd = "exif_legacy"
    /\ ex_result = None
    /\ ex_result' = Some(GetImgCaptureTimestamp(ex_tags))
    /\ UNCHANGED <<orchVars, fsVars, listVars, mapVars, pc, raisedIn, ex_tags>>

NextExif == CallGetImgCapturedTimestamp \/ CallGetImgCaptureTimestamp

SpecExif == InitExif /\ [][NextExif]_vars

\* ===================================================================== claims
Enumerated == SeqToSet(src1_img_paths) \cup SeqToSet(src2_img_paths)
GroupCmds == {"groupby", "groupby_legacy"}

(* C1: in the compare pipeline the hash sets of the buckets both,          *)
(* src1_only and src2_only are pairwise disjoint, their union is the union *)
(* of the two sources' hashes, and a hash is in both exactly when it       *)
(* occurs in both hash lists, in src1_only exactly when it occurs in the   *)
(* first list only, in src2_only exactly when in the second list only.     *)
C1_BucketsPartitionHashes ==
    LET H1 == {src1_img_hashes[i] : i \in DOMAIN src1_img_hashes}
        H2 == {src2_img_hashes[i] : i \in DOMAIN src2_img_hashes}
        B  == hashes_in_both
        O1 == hashes_in_src1_only
        O2 == hashes_in_src2_only
    IN  /\ B \cap O1 = {} /\ B \cap O2 = {} /\ O1 \cap O2 = {}
        /\ B \cup O1 \cup O2 = H1 \cup H2
        /\ \A h \in H1 \cup H2 \cup B \cup O1 \cup O2 :
              /\ h \in B  <=> (h \in H1 /\ h \in H2)
              /\ h \in O1 <=> (h \in H1 /\ h \notin H2)
              /\ h \in O2 <=> (h \in H2 /\ h \notin H1)

\* both sources are hashed and each of the three buckets holds a hash
C1_Witness ==
    /\ cmd = "compare" /\ pc = "mkdir_both"
    /\ hashes_in_both # {} /\ hashes_in_src1_only # {} /\ hashes_in_src2_only # {}

(* C2: when the destination root exists as a command starts, the command   *)
(* raises before any work: no source file is read, nothing is enumerated,  *)
(* no mapper call is made, no directory is created and no file is written. *)
C2_ExistingDstRejected ==
    DST \in dirs0 =>
        /\ pc \in {"start", "error"}
        /\ reads = {} /\ dirs = dirs0 /\ outFiles = {}
        /\ src1_img_paths = <<>> /\ src2_img_paths = <<>> /\ m_items = <<>>

\* a command was run against an existing destination and has raised
C2_Witness == DST \in dirs0 /\ pc = "error" /\ cmd \in {"compare", "groupby"}

Partitioned ==
    /\ cmd \in GroupCmds
    /\ pc \in {"mkdir_groups", "copy_groups", "done", "error"}
    /\ Len(src_img_captured_timestamps) = Len(src1_img_paths)

AllDigits(name) == \A k \in DOMAIN name : IsDigit(name[k])
\* name is the timestamp's YYYY, YYYYMM or YYYYMMDD
LabelMatches(name, dt, gb) ==
    /\ AllDigits(name)
    /\ Len(name) = (CASE gb = "year" -> 4 [] gb = "month" -> 6 [] gb = "day" -> 8)
    /\ NumVal(name, 1, Len(name)) =
          (CASE gb = "year" -> dt.Y
             [] gb = "month" -> dt.Y * 100 + dt.m
             [] gb = "day" -> dt.Y * 10000 + dt.m * 100 + dt.d)

(* C3: in a group pipeline, once the images are partitioned, every         *)
(* enumerated image is in exactly one bucket, once: UNKNOWN when its       *)
(* extracted timestamp is none, else the bucket named by its timestamp at  *)
(* the requested granularity.                                              *)
C3_ExactlyOneBucket ==
    Partitioned =>
        \A i \in DOMAIN src1_img_paths :
            LET p == src1_img_paths[i]
                ts == src_img_captured_timestamps[i]
                holders == {name \in DOMAIN buckets :
                               \E k \in DOMAIN buckets[name] : buckets[name][k] = p}
            IN  /\ Cardinality(holders) = 1
                /\ \A name \in holders :
                      /\ Cardinality({k \in DOMAIN buckets[name] : buckets[name][k] = p}) = 1
                      /\ IF ts = None THEN name = UNKNOWN
                         ELSE LabelMatches(name, ts[1], groupby)

\* two images were partitioned, one into UNKNOWN and one into a dated bucket
C3_Witness ==
    /\ Partitioned /\ pc = "mkdir_groups"
    /\ Len(src1_img_paths) = 2
    /\ UNKNOWN \in DOMAIN buckets /\ Cardinality(DOMAIN buckets) = 2

\* unreadable, or (for the group pipelines) not decodable as an image
Bad(p) == ~fs[p].readable \/ (cmd \in GroupCmds /\ fs[p].exif = None)

(* C4: an enumerated file that is unreadable or not decodable does not     *)
(* abort the run: no invocation on it raises, and when the command has     *)
(* ended the file is in the output tree (for the group pipelines, under    *)
(* UNKNOWN).                                                               *)
C4_BadFileDoesNotAbort ==
    /\ pc \in CopyStages =>
          \A i \in DOMAIN m_items : m_state[i] = "raised" => ~Bad(m_items[i][1])
    /\ pc = "done" =>
          \A p \in Enumerated :
              Bad(p) => \E o \in outFiles :
                            /\ o[2] = p
                            /\ cmd \in GroupCmds => Parent(o[1]) = DST \o <<[stem |-> UNKNOWN, suffix |-> ""]>>

(* C5: the source-to-destination mapping of each pipeline is 1:1: no two   *)
(* distinct source paths are mapped to the same destination path.          *)
C5_MappingOneToOne ==
    \A a \in mapping : \A b \in mapping : a[1] # b[1] => a[2] # b[2]

(* C6: the list a mapper call returns pairs the i-th item with the result  *)
(* of the function on the i-th item, whatever the worker count and the     *)
(* order of completion: each stored hash, timestamp or tag mapping is that *)
(* of the path at the same index.                                          *)
C6_ResultsInInputOrder ==
    /\ Len(src1_img_hashes) \in {0, Len(src1_img_paths)}
    /\ Len(src2_img_hashes) \in {0, Len(src2_img_paths)}
    /\ \A i \in DOMAIN src1_img_hashes :
          src1_img_hashes[i] = ComputeHash(fs[src1_img_paths[i]], hasher)
    /\ \A i \in DOMAIN src2_img_hashes :
          src2_img_hashes[i] = ComputeHash(fs[src2_img_paths[i]], hasher)
    /\ cmd = "groupby" =>
          \A i \in DOMAIN src_img_captured_timestamps :
              src_img_captured_timestamps[i] = ReadCapturedTimestamp(fs[src1_img_paths[i]])
    /\ \A i \in DOMAIN exif_attrs_per_img :
          exif_attrs_per_img[i] = ReadExifTags(fs[src1_img_paths[i]])

\* a mapper call whose second invocation completed first has returned two different hashes
C6_Witness ==
    /\ cmd = "compare" /\ pc = "hash_src2"
    /\ Len(src1_img_hashes) = 2 /\ src1_img_hashes[1] # src1_img_hashes[2]
    /\ m_prev_order = <<2, 1>>

(* C7: once an invocation of a mapper call has raised, the call does not   *)
(* return a result list: the orchestrator never moves to a later stage,    *)
(* the only way on is the error, and when the call ends the error is       *)
(* raised.                                                                 *)
C7_MapperFailsFast ==
    /\ raisedIn # "none" => pc \in {raisedIn, "error"}
    /\ (raisedIn # "none" /\ pc # "error" /\ (threads = 1 \/ PoolDrained(m_state)))
          => ENABLED MapperRaise

\* an invocation raised and the command ended with the error
C7_Witness == raisedIn \in MkdirStages \cup CopyStages /\ pc = "error"

(* C9: while a bucket's copies are issued, every mkdirp invocation of that *)
(* bucket has finished (none pending, in flight or failed), one per        *)
(* destination parent directory, and every destination parent directory    *)
(* of the bucket's mapping exists.                                         *)
C9_MkdirBeforeCopy ==
    pc \in CopyStages =>
        /\ Len(m_prev) = Cardinality(ParentsOf(mapping))
        /\ \A i \in DOMAIN m_prev : m_prev[i] = "done"
        /\ \A pair \in mapping : Parent(pair[2]) \in dirs

\* a copy has run after a directory phase of two mkdirp invocations
C9_Witness ==
    /\ pc \in CopyStages
    /\ Len(m_prev) = 2
    /\ \E i \in DOMAIN m_state : m_state[i] = "done"

(* C10: in the compare pipeline, the destination root not existing at      *)
(* start, no mkdirp invocation of a directory-creation phase raises,       *)
(* whatever the set of parent directories and the interleaving.            *)
C10_MkdirPhaseNeverRaises ==
    (cmd = "compare" /\ DST \notin dirs0 /\ pc \in MkdirStages) =>
        \A i \in DOMAIN m_state : m_state[i] # "raised"

\* what the extractor must return for ex_tags: the first tag, in TagOrder,
\* that is a string parsing as a timestamp; none when there is no such tag
ValidTag(k) == ex_tags[k].t = "str" /\ Strptime(ex_tags[k].s) # None
ExpectedTimestamp ==
    IF \E i \in DOMAIN TagOrder : ValidTag(TagOrder[i])
    THEN LET first == CHOOSE i \in DOMAIN TagOrder :
                         /\ ValidTag(TagOrder[i])
                         /\ \A j \in 1..(i - 1) : ~ValidTag(TagOrder[j])
         IN  Strptime(ex_tags[TagOrder[first]].s)
    ELSE None

(* C8: the capture-timestamp extractor returns the value of the first tag, *)
(* in the order DateTimeOriginal, DateTimeDigitized, DateTime, that is     *)
(* present and parses; a present tag that does not parse is skipped; it    *)
(* returns none exactly when no tag yields a timestamp.                    *)
C8_TimestampPriority ==
    ex_result # None =>
        /\ ~ex_result[1].raised
        /\ ex_result[1].value = ExpectedTimestamp

\* C8 for get_img_captured_timestamp of exif.py alone
ExifPyTimestampPriority ==
    (cmd = "exif" /\ ex_result # None) =>
        /\ ~ex_result[1].raised
        /\ ex_result[1].value = ExpectedTimestamp
====
